---- MODULE Spec2Model ----
(***************************************************************************)
(* A model of src/surface/volume.js (NGL): the Volume object, its cached   *)
(* statistics, its filtered data view, its coordinate frame and the        *)
(* worker off-loading of surface extraction.                               *)
(*                                                                         *)
(* Representation of JavaScript values.  A JavaScript value that may be a  *)
(* number, a boolean or undefined is a pair <<tag, n>>.  Samples, grid     *)
(* extents and matrix elements, which are always numbers, are integers.    *)
(* A property that may be deleted and holds an array or an object is a     *)
(* record with a field def (FALSE: the property is undefined).             *)
(* Arithmetic is integer arithmetic: x / n is x \div n and Math.sqrt is    *)
(* the integer square root.  The sample arrays of DataSets are chosen so   *)
(* that sum/n and sqrt(sumSq/n) are exact.                                 *)
(***************************************************************************)
EXTENDS Integers, Sequences, FiniteSets, TLC

VARIABLES
    vol,         \* the Volume object of the main thread
    last,        \* the last call made on it and what the caller observed
    applied,     \* history: the filter triple applied to the current samples
    json,        \* a snapshot a caller took with toJSON and kept
    env,         \* whether Worker is defined, whether importScripts is a function
    workerPool,  \* this.workerPool and the workers it created
    replies,     \* worker events on their way to the handlers of the main thread
    requests,    \* the getSurfaceWorker calls made and what their callbacks got
    registered   \* whether GidPool holds the volume

vars == <<vol, last, applied, json, env, workerPool, replies, requests, registered>>

\* ------------------------------------------------------------ JS values

Num(n) == <<"number", n>>
Undef == <<"undefined", 0>>
NaN == <<"NaN", 0>>
Inf == <<"Infinity", 1>>
NegInf == <<"Infinity", -1>>
True == <<"boolean", 1>>
False == <<"boolean", 0>>

NoArray == [def |-> FALSE, val |-> <<>>]
Array(s) == [def |-> TRUE, val |-> s]

\* isNaN(x): x is converted to a number first, and undefined converts to NaN
IsNaN(x) == x[1] \in {"undefined", "NaN"}

\* the truthiness that x || y and if( x ) test
Truthy(x) ==
    CASE x[1] = "number" -> x[2] # 0
      [] x[1] = "Infinity" -> TRUE
      [] x[1] = "boolean" -> x[2] = 1
      [] OTHER -> FALSE

IsOrdered(x) == x[1] \in {"number", "Infinity"}

\* a < b on numbers; any comparison with NaN or undefined is false
JsLt(a, b) ==
    CASE a[1] = "number" /\ b[1] = "number" -> a[2] < b[2]
      [] a[1] = "number" /\ b[1] = "Infinity" -> b[2] = 1
      [] a[1] = "Infinity" /\ b[1] = "number" -> a[2] = -1
      [] a[1] = "Infinity" /\ b[1] = "Infinity" -> a[2] < b[2]
      [] OTHER -> FALSE

JsLe(a, b) ==
    CASE a[1] = "number" /\ b[1] = "number" -> a[2] <= b[2]
      [] a[1] = "number" /\ b[1] = "Infinity" -> b[2] = 1
      [] a[1] = "Infinity" /\ b[1] = "number" -> a[2] = -1
      [] a[1] = "Infinity" /\ b[1] = "Infinity" -> a[2] <= b[2]
      [] OTHER -> FALSE

JsGt(a, b) == JsLt(b, a)
JsGe(a, b) == JsLe(b, a)

\* a === b: NaN equals nothing, itself included
StrictEq(a, b) == a[1] # "NaN" /\ a = b

\* a == b, for operands that are numbers or undefined (no null, no strings):
\* undefined == x holds only for x undefined, so it agrees with ===
LooseEq(a, b) == a[1] # "NaN" /\ a = b

MathMin(a, b) == IF IsNaN(a) \/ IsNaN(b) THEN NaN ELSE IF JsLt(b, a) THEN b ELSE a
MathMax(a, b) == IF IsNaN(a) \/ IsNaN(b) THEN NaN ELSE IF JsGt(b, a) THEN b ELSE a

\* a / d for integers with an integer quotient, d not 0
Quot(a, d) == IF d > 0 THEN a \div d ELSE (0 - a) \div (0 - d)

\* the sign of a number or an infinity
SignOf(a) == IF a[2] > 0 THEN 1 ELSE IF a[2] < 0 THEN -1 ELSE 0

\* a + b, a - b and a * b: NaN and undefined give NaN, Infinity - Infinity
\* and Infinity * 0 are NaN
JsAdd(a, b) ==
    CASE ~IsOrdered(a) \/ ~IsOrdered(b) -> NaN
      [] a[1] = "number" /\ b[1] = "number" -> Num(a[2] + b[2])
      [] a[1] = "Infinity" /\ b[1] = "Infinity" -> IF a = b THEN a ELSE NaN
      [] a[1] = "Infinity" -> a
      [] OTHER -> b

JsMul(a, b) ==
    CASE ~IsOrdered(a) \/ ~IsOrdered(b) -> NaN
      [] a[1] = "number" /\ b[1] = "number" -> Num(a[2] * b[2])
      [] SignOf(a) = 0 \/ SignOf(b) = 0 -> NaN
      [] OTHER -> <<"Infinity", SignOf(a) * SignOf(b)>>

JsSub(a, b) == JsAdd(a, JsMul(Num(-1), b))

\* a / b on finite numbers, for operands whose quotient is an integer or
\* whose divisor is 0: x / 0 is an infinity of the sign of x, and 0 / 0 is NaN
JsDiv(a, b) ==
    CASE a[1] # "number" \/ b[1] # "number" -> NaN
      [] b[2] # 0 -> Num(Quot(a[2], b[2]))
      [] a[2] = 0 -> NaN
      [] OTHER -> <<"Infinity", SignOf(a)>>

\* x / n for a finite x and an array length n: 0/0 is NaN
JsDivLen(x, n) == IF n = 0 THEN NaN ELSE Num(x \div n)

RECURSIVE ISqrtFrom(_, _)
ISqrtFrom(x, r) == IF (r + 1) * (r + 1) > x THEN r ELSE ISqrtFrom(x, r + 1)

\* Math.sqrt on a non-negative number
MathSqrt(a) == IF a[1] = "number" /\ a[2] >= 0 THEN Num(ISqrtFrom(a[2], 0)) ELSE NaN

\* x || 1 for a grid extent
OrOne(x) == IF Truthy(x) THEN x[2] ELSE 1

\* ------------------------------------------------------------ THREE math

\* THREE.Matrix4.elements, column-major
Identity4 == <<1, 0, 0, 0,  0, 1, 0, 0,  0, 0, 1, 0,  0, 0, 0, 1>>
Identity3 == <<1, 0, 0,  0, 1, 0,  0, 0, 1>>

\* THREE.Vector3.applyMatrix4 (affine)
ApplyMatrix4(m, p) ==
    << m[1] * p[1] + m[5] * p[2] + m[9] * p[3] + m[13],
       m[2] * p[1] + m[6] * p[2] + m[10] * p[3] + m[14],
       m[3] * p[1] + m[7] * p[2] + m[11] * p[3] + m[15] >>

\* THREE.Vector3.applyMatrix3
ApplyMatrix3(m, p) ==
    << m[1] * p[1] + m[4] * p[2] + m[7] * p[3],
       m[2] * p[1] + m[5] * p[2] + m[8] * p[3],
       m[3] * p[1] + m[6] * p[2] + m[9] * p[3] >>

\* THREE.Vector3.crossVectors
CrossVectors(a, b) ==
    << a[2] * b[3] - a[3] * b[2], a[3] * b[1] - a[1] * b[3], a[1] * b[2] - a[2] * b[1] >>

\* THREE.Box3: min and max hold JS values; the empty box is (+Infinity, -Infinity)
EmptyBox == [min |-> <<Inf, Inf, Inf>>, max |-> <<NegInf, NegInf, NegInf>>]

\* the eight corners of a finite box
BoxCorners(bb) ==
    { << bb.min[1][2] + i * (bb.max[1][2] - bb.min[1][2]),
         bb.min[2][2] + j * (bb.max[2][2] - bb.min[2][2]),
         bb.min[3][2] + k * (bb.max[3][2] - bb.min[3][2]) >> :
      i \in {0, 1}, j \in {0, 1}, k \in {0, 1} }

\* THREE.Box3.expandByPoint for each of the points ps: min.min( point ) and
\* max.max( point ) leave, in every coordinate, the least and the greatest of
\* the box's bound and the points
ExpandByPoints(bb, ps) ==
    LET Least(S) == CHOOSE m \in S : \A x \in S : JsLe(m, x)
        Greatest(S) == CHOOSE m \in S : \A x \in S : JsGe(m, x)
        lo(k) == Least({bb.min[k]} \cup { Num(p[k]) : p \in ps })
        hi(k) == Greatest({bb.max[k]} \cup { Num(p[k]) : p \in ps })
    IN  [min |-> << lo(1), lo(2), lo(3) >>, max |-> << hi(1), hi(2), hi(3) >>]

\* THREE.Box3.applyMatrix4 on a finite box: the box of its transformed corners
BoxApplyMatrix4(bb, m) ==
    ExpandByPoints(EmptyBox, { ApplyMatrix4(m, p) : p \in BoxCorners(bb) })

\* THREE.Box3.center of a finite box: ( min + max ) * 0.5, in integer arithmetic
BoxCenter(bb) == [k \in 1..3 |-> (bb.min[k][2] + bb.max[k][2]) \div 2]

\* THREE.Box3.set( min, max ) is this.min.copy( min ); this.max.copy( max ),
\* and Vector3.copy reads v.x, v.y, v.z: given arrays, as fromJSON gives it,
\* every component becomes undefined
BoxSetFromArrays(min, max) ==
    [min |-> <<Undef, Undef, Undef>>, max |-> <<Undef, Undef, Undef>>]

\* element (r, c), 0-based, of a column-major 4x4
El(m, r, c) == m[4 * c + r + 1]

Det3(a, b, c, d, e, f, g, h, i) ==
    a * (e * i - f * h) - b * (d * i - f * g) + c * (d * h - e * g)

\* the determinant of m without row r and column c
Minor(m, r, c) ==
    LET rs == SelectSeq(<<0, 1, 2, 3>>, LAMBDA x : x # r)
        cs == SelectSeq(<<0, 1, 2, 3>>, LAMBDA x : x # c)
    IN  Det3(El(m, rs[1], cs[1]), El(m, rs[1], cs[2]), El(m, rs[1], cs[3]),
             El(m, rs[2], cs[1]), El(m, rs[2], cs[2]), El(m, rs[2], cs[3]),
             El(m, rs[3], cs[1]), El(m, rs[3], cs[2]), El(m, rs[3], cs[3]))

Sign(k) == IF k % 2 = 0 THEN 1 ELSE -1

Det4(m) ==
    El(m, 0, 0) * Minor(m, 0, 0) - El(m, 0, 1) * Minor(m, 0, 1)
      + El(m, 0, 2) * Minor(m, 0, 2) - El(m, 0, 3) * Minor(m, 0, 3)

\* THREE.Matrix4.getInverse: the adjugate times 1 / det; a matrix of
\* determinant 0 gives the identity
GetInverse(m) ==
    IF Det4(m) = 0 THEN Identity4
    ELSE [k \in 1..16 |->
            LET r == (k - 1) % 4
                c == (k - 1) \div 4
            IN  Quot(Sign(r + c) * Minor(m, c, r), Det4(m))]

\* ------------------------------------------------------------ Volume

NoHeader == [def |-> FALSE, DMEAN |-> 0, ARMS |-> 0]
NoMc == [def |-> FALSE, data |-> <<>>, nx |-> 0, ny |-> 0, nz |-> 0, atomindex |-> NoArray]

\* delete this.mc, this.__minValue, ... of setData (lines 81-95); the
\* properties __isolevel and __smooth are assigned nowhere and not modelled
SetDataNoStatsReset(v, data, nx, ny, nz, dataAtomindex) ==
    [v EXCEPT
        !.nx = OrOne(nx), !.ny = OrOne(ny), !.nz = OrOne(nz),
        !.data = IF data.def THEN data.val ELSE <<0>>,
        !.__data = IF data.def THEN data.val ELSE <<0>>,
        !.dataAtomindex = dataAtomindex,
        !.__dataAtomindex = dataAtomindex,
        !.__dataAtomindexBuffer = Undef,
        !.mc = NoMc,
        !.__minValue = Undef, !.__maxValue = Undef,
        !.__dataPositionBuffer = Undef,
        !.__dataPosition = NoArray,
        !.__dataBuffer = Undef]

SetDataNoFilterReset(v, data, nx, ny, nz, dataAtomindex) ==
    [v EXCEPT
        !.nx = OrOne(nx), !.ny = OrOne(ny), !.nz = OrOne(nz),
        !.data = IF data.def THEN data.val ELSE <<0>>,
        !.__data = IF data.def THEN data.val ELSE <<0>>,
        !.dataAtomindex = dataAtomindex,
        !.__dataAtomindex = dataAtomindex,
        !.__dataAtomindexBuffer = Undef,
        !.mc = NoMc,
        !.__dataPositionBuffer = Undef,
        !.__dataPosition = NoArray,
        !.__dataBuffer = Undef,
        !.__dataMin = Undef, !.__dataMax = Undef,
        !.__dataMean = Undef, !.__dataRms = Undef]

\* Volume.prototype.setDataAtomindex
SetDataAtomindexOp(v, dataAtomindex) ==
    [v EXCEPT
        !.dataAtomindex = dataAtomindex,
        !.__dataAtomindex = dataAtomindex,
        !.__dataAtomindexBuffer = Undef]

\* Volume.prototype.setData, the fields of the volume (lines 72-95).  A new
\* Float32Array( 1 ) holds one 0.  The worker and registry calls of lines
\* 97-104 act on state outside the volume record: see SetData.
SetDataOp(v, data, nx, ny, nz, dataAtomindex) ==
    [SetDataAtomindexOp(v, dataAtomindex) EXCEPT
        !.nx = OrOne(nx), !.ny = OrOne(ny), !.nz = OrOne(nz),
        !.data = IF data.def THEN data.val ELSE <<0>>,
        !.__data = IF data.def THEN data.val ELSE <<0>>,
        !.mc = NoMc,
        !.__minValue = Undef, !.__maxValue = Undef,
        !.__dataPositionBuffer = Undef,
        !.__dataPosition = NoArray,
        !.__dataBuffer = Undef,
        !.__dataMin = Undef, !.__dataMax = Undef,
        !.__dataMean = Undef, !.__dataRms = Undef]

\* the fields a Volume has before the constructor calls setData (lines 48-55):
\* every property not yet assigned is undefined
BlankVolume ==
    [ nx |-> 0, ny |-> 0, nz |-> 0,
      data |-> <<>>, __data |-> <<>>,
      dataAtomindex |-> NoArray, __dataAtomindex |-> NoArray,
      __dataAtomindexBuffer |-> Undef,
      mc |-> NoMc,
      __minValue |-> Undef, __maxValue |-> Undef, __outside |-> Undef,
      dataPosition |-> NoArray, __dataPosition |-> NoArray,
      __dataPositionBuffer |-> Undef, __dataBuffer |-> Undef,
      __dataMin |-> Undef, __dataMax |-> Undef,
      __dataMean |-> Undef, __dataRms |-> Undef,
      matrix |-> Identity4, normalMatrix |-> Identity3,
      inverseMatrix |-> Identity4,
      center |-> <<0, 0, 0>>, boundingBox |-> EmptyBox,
      header |-> NoHeader,
      worker |-> Undef ]

\* function Volume( name, path, data, nx, ny, nz, dataAtomindex )
NewVolume(data, nx, ny, nz, dataAtomindex) ==
    SetDataOp(BlankVolume, data, nx, ny, nz, dataAtomindex)

\* Volume.prototype.setMatrix
SetMatrixOp(v, matrix) ==
    LET x == v.nx - 1
        y == v.ny - 1
        z == v.nz - 1
        grid == ExpandByPoints(EmptyBox,
                    { <<x, y, z>>, <<x, y, 0>>, <<x, 0, z>>, <<x, 0, 0>>,
                      <<0, y, z>>, <<0, 0, z>>, <<0, y, 0>>, <<0, 0, 0>> })
        bb == BoxApplyMatrix4(grid, matrix)
        r0 == << matrix[1], matrix[2], matrix[3] >>
        r1 == << matrix[5], matrix[6], matrix[7] >>
        r2 == << matrix[9], matrix[10], matrix[11] >>
    IN  [v EXCEPT
            !.matrix = matrix,
            !.boundingBox = bb,
            !.center = BoxCenter(bb),
            !.normalMatrix = CrossVectors(r1, r2) \o CrossVectors(r2, r0)
                                \o CrossVectors(r0, r1),
            !.inverseMatrix = GetInverse(matrix)]

\* Volume.prototype.clone (name and path are not modelled)
CloneOp(v) ==
    LET n == NewVolume(Array(v.__data), Num(v.nx), Num(v.ny), Num(v.nz),
                       v.__dataAtomindex)
    IN  [n EXCEPT !.matrix = v.matrix,
                  !.header = IF v.header.def THEN v.header ELSE n.header]

\* Volume.prototype.toJSON (name, path and metadata are not modelled)
ToJSONOp(v) ==
    [ def |-> TRUE,
      data |-> v.__data,
      nx |-> v.nx, ny |-> v.ny, nz |-> v.nz,
      dataAtomindex |-> v.__dataAtomindex,
      matrix |-> v.matrix,
      normalMatrix |-> v.normalMatrix,
      inverseMatrix |-> v.inverseMatrix,
      center |-> v.center,
      boundingBox |-> v.boundingBox,
      header |-> v.header ]

NoJSON == [ToJSONOp(BlankVolume) EXCEPT !.def = FALSE]

\* Volume.prototype.fromJSON
FromJSONOp(v, input) ==
    [SetDataOp(v, Array(input.data), Num(input.nx), Num(input.ny), Num(input.nz),
               input.dataAtomindex)
     EXCEPT
        !.matrix = input.matrix,
        !.normalMatrix = input.normalMatrix,
        !.inverseMatrix = input.inverseMatrix,
        !.header = IF input.header.def THEN input.header ELSE v.header,
        !.center = input.center,
        !.boundingBox = BoxSetFromArrays(input.boundingBox.min, input.boundingBox.max)]

\* ------------------------------------------------------------ statistics

RECURSIVE MinLoop(_, _, _)
MinLoop(data, i, min) ==
    IF i > Len(data) THEN min ELSE MinLoop(data, i + 1, MathMin(min, Num(data[i])))

RECURSIVE MaxLoop(_, _, _)
MaxLoop(data, i, max) ==
    IF i > Len(data) THEN max ELSE MaxLoop(data, i + 1, MathMax(max, Num(data[i])))

RECURSIVE SumLoop(_, _, _)
SumLoop(data, i, sum) ==
    IF i > Len(data) THEN sum ELSE SumLoop(data, i + 1, sum + data[i])

RECURSIVE SumSqLoop(_, _, _)
SumSqLoop(data, i, sumSq) ==
    IF i > Len(data) THEN sumSq ELSE SumSqLoop(data, i + 1, sumSq + data[i] * data[i])

\* each getter: [vol |-> the volume with its cache written, ret |-> the value returned]
GetDataMinOp(v) ==
    LET w == IF v.__dataMin = Undef
             THEN [v EXCEPT !.__dataMin = MinLoop(v.__data, 1, Inf)] ELSE v
    IN  [vol |-> w, ret |-> w.__dataMin]

GetDataMaxOp(v) ==
    LET w == IF v.__dataMax = Undef
             THEN [v EXCEPT !.__dataMax = MaxLoop(v.__data, 1, NegInf)] ELSE v
    IN  [vol |-> w, ret |-> w.__dataMax]

GetDataMeanOp(v) ==
    LET w == IF v.__dataMean = Undef
             THEN [v EXCEPT !.__dataMean =
                      JsDivLen(SumLoop(v.__data, 1, 0), Len(v.__data))] ELSE v
    IN  [vol |-> w, ret |-> w.__dataMean]

\* getDataRms taken about the mean: the root mean square deviation
GetDataRmsDeviation(v) ==
    LET n == Len(v.__data)
        mean == JsDivLen(SumLoop(v.__data, 1, 0), n)
        dev == [i \in 1..n |-> v.__data[i] - mean[2]]
        w == IF v.__dataRms = Undef
             THEN [v EXCEPT !.__dataRms = MathSqrt(JsDivLen(SumSqLoop(dev, 1, 0), n))]
             ELSE v
    IN  [vol |-> w, ret |-> w.__dataRms]

GetDataRmsOp(v) ==
    LET w == IF v.__dataRms = Undef
             THEN [v EXCEPT !.__dataRms =
                      MathSqrt(JsDivLen(SumSqLoop(v.__data, 1, 0), Len(v.__data)))] ELSE v
    IN  [vol |-> w, ret |-> w.__dataRms]

\* ------------------------------------------------------------ filtering

\* the grid point of flat sample i (0-based), x fastest, then y, then z
GridPoint(i, nx, ny) == << i % nx, (i \div nx) % ny, i \div (nx * ny) >>

\* Volume.prototype.makeDataPosition
MakeDataPosition(v) ==
    LET position == [k \in 1..(v.nx * v.ny * v.nz * 3) |->
                        ApplyMatrix4(v.matrix,
                            GridPoint((k - 1) \div 3, v.nx, v.ny))[((k - 1) % 3) + 1]]
    IN  [v EXCEPT !.dataPosition = Array(position), !.__dataPosition = Array(position)]

\* the defaults of filterData (lines 324-330)
FilterDefaults(v, minValue, maxValue, outside) ==
    LET m1 == IF IsNaN(minValue) /\ v.header.def
              THEN Num(v.header.DMEAN + 2 * v.header.ARMS) ELSE minValue
    IN  [ minValue |-> IF m1 # Undef /\ ~IsNaN(m1) THEN m1 ELSE NegInf,
          maxValue |-> IF maxValue # Undef THEN maxValue ELSE Inf,
          outside |-> IF Truthy(outside) THEN outside ELSE False ]

\* the test of lines 376-377
Retained(x, t) ==
    \/ ~Truthy(t.outside) /\ JsGe(Num(x), t.minValue) /\ JsLe(Num(x), t.maxValue)
    \/ Truthy(t.outside) /\ (JsLt(Num(x), t.minValue) \/ JsGt(Num(x), t.maxValue))

\* the loop of lines 371-392: the retained samples and their positions, or
\* threw when dataPosition is undefined and a sample is retained (the read
\* dataPosition[ i3 + 0 ] of undefined is a TypeError)
RECURSIVE FilterLoop(_, _, _, _, _, _)
FilterLoop(data, dataPosition, t, i, fpos, fdata) ==
    IF i > Len(data) THEN [threw |-> FALSE, pos |-> fpos, data |-> fdata]
    ELSE IF Retained(data[i], t)
         THEN IF ~dataPosition.def
              THEN [threw |-> TRUE, pos |-> fpos, data |-> fdata]
              ELSE FilterLoop(data, dataPosition, t, i + 1,
                       fpos \o << dataPosition.val[3 * i - 2],
                                  dataPosition.val[3 * i - 1],
                                  dataPosition.val[3 * i] >>,
                       Append(fdata, data[i]))
         ELSE FilterLoop(data, dataPosition, t, i + 1, fpos, fdata)

\* filterData that compacts the retained samples into the canonical array
FilterDataInPlace(v, minValue, maxValue, outside) ==
    LET t == FilterDefaults(v, minValue, maxValue, outside)
        v1 == IF ~v.dataPosition.def THEN MakeDataPosition(v) ELSE v
        f == FilterLoop(v1.__data, v1.__dataPosition, t, 1, <<>>, <<>>)
    IN  IF f.threw
        THEN [vol |-> v1, skipped |-> FALSE, threw |-> TRUE]
        ELSE [vol |-> [v1 EXCEPT !.dataPosition = Array(f.pos), !.data = f.data,
                                 !.__data = f.data,
                                 !.__minValue = t.minValue, !.__maxValue = t.maxValue,
                                 !.__outside = t.outside],
              skipped |-> FALSE, threw |-> FALSE]

\* Volume.prototype.filterData: [vol, skipped, threw]
FilterDataOp(v, minValue, maxValue, outside) ==
    LET t == FilterDefaults(v, minValue, maxValue, outside)
        v1 == IF ~v.dataPosition.def THEN MakeDataPosition(v) ELSE v
        dataPosition == v1.__dataPosition
        data == v1.__data
        n == Len(data)
        v2 == IF v1.__dataBuffer = Undef
              THEN [v1 EXCEPT !.__dataPositionBuffer = Num(n * 3 * 4),
                              !.__dataBuffer = Num(n * 4)]
              ELSE v1
        f == FilterLoop(data, dataPosition, t, 1, <<>>, <<>>)
        recorded(w) == [w EXCEPT !.__minValue = t.minValue,
                                 !.__maxValue = t.maxValue,
                                 !.__outside = t.outside]
    IN  IF /\ StrictEq(t.minValue, v1.__minValue)
           /\ LooseEq(t.maxValue, v1.__maxValue)
           /\ StrictEq(t.outside, v1.__outside)
        THEN [vol |-> v1, skipped |-> TRUE, threw |-> FALSE]
        ELSE IF t.minValue = NegInf /\ t.maxValue = Inf
        THEN [vol |-> recorded([v1 EXCEPT !.dataPosition = dataPosition, !.data = data]),
              skipped |-> FALSE, threw |-> FALSE]
        ELSE IF f.threw
        THEN [vol |-> v2, skipped |-> FALSE, threw |-> TRUE]
        ELSE [vol |-> recorded([v2 EXCEPT !.dataPosition = Array(f.pos), !.data = f.data]),
              skipped |-> FALSE, threw |-> FALSE]

\* ------------------------------------------------------------ surfaces

\* Volume.prototype.getValueForSigma: [vol, ret]
GetValueForSigmaOp(v, sigma) ==
    LET k == IF sigma # Undef THEN sigma ELSE Num(2)
        m == GetDataMeanOp(v)
        r == GetDataRmsOp(m.vol)
    IN  [vol |-> r.vol, ret |-> JsAdd(m.ret, JsMul(k, r.ret))]

\* getSigmaForValue that leaves the mean out: value / rms
GetSigmaForValueNoMean(v, value) ==
    LET x == IF value # Undef THEN value ELSE Num(0)
        m == GetDataMeanOp(v)
        r == GetDataRmsOp(m.vol)
    IN  [vol |-> r.vol, ret |-> JsDiv(x, r.ret)]

\* Volume.prototype.getSigmaForValue: [vol, ret]
GetSigmaForValueOp(v, value) ==
    LET x == IF value # Undef THEN value ELSE Num(0)
        m == GetDataMeanOp(v)
        r == GetDataRmsOp(m.vol)
    IN  [vol |-> r.vol, ret |-> JsDiv(JsSub(x, m.ret), r.ret)]

NoVector == [def |-> FALSE, val |-> <<0, 0, 0>>]
Vector(x, y, z) == [def |-> TRUE, val |-> <<x, y, z>>]

NoBox == [def |-> FALSE, min |-> <<0, 0, 0>>, max |-> <<0, 0, 0>>]

\* Volume.prototype.getBox, as the [ min.toArray(), max.toArray() ] of line 208;
\* Math.round leaves the integer coordinates as they are
GetBox(v, center, size) ==
    LET c == center.val
        target == [min |-> [k \in 1..3 |-> Num(c[k] - size[2])],
                   max |-> [k \in 1..3 |-> Num(c[k] + size[2])]]
        b == BoxApplyMatrix4(target, v.inverseMatrix)
    IN  [def |-> TRUE,
         min |-> [k \in 1..3 |-> b.min[k][2]],
         max |-> [k \in 1..3 |-> b.max[k][2]]]

\* new MarchingCubes( this.__data, this.nx, this.ny, this.nz, this.__dataAtomindex )
NewMarchingCubes(v) ==
    [def |-> TRUE, data |-> v.__data, nx |-> v.nx, ny |-> v.ny, nz |-> v.nz,
     atomindex |-> v.__dataAtomindex]

NoSurface ==
    [def |-> FALSE, isolevel |-> Undef, smooth |-> Undef, mc |-> NoMc, box |-> NoBox,
     matrix |-> Identity4, normalMatrix |-> Identity3]

\* The triangulation, the smoothing and the normals are deterministic functions
\* of the marching-cubes instance (the samples, extents and labels it was built
\* from), the isolevel, the smoothing count and the box; the mesh is then
\* transformed by matrix and normalMatrix.  A surface is the record of these
\* inputs, with info.isolevel and info.smooth.
\* Volume.prototype.getSurface: [vol, surface]
GetSurfaceOp(v, isolevel, smooth, center, size) ==
    LET iso == IF IsNaN(isolevel) THEN GetValueForSigmaOp(v, Num(2))
               ELSE [vol |-> v, ret |-> isolevel]
        sm == IF Truthy(smooth) THEN smooth ELSE Num(0)
        v1 == IF ~iso.vol.mc.def THEN [iso.vol EXCEPT !.mc = NewMarchingCubes(iso.vol)]
              ELSE iso.vol
        box == IF center.def /\ Truthy(size) THEN GetBox(v1, center, size) ELSE NoBox
    IN  [vol |-> v1,
         surface |-> [def |-> TRUE, isolevel |-> iso.ret, smooth |-> sm,
                      mc |-> v1.mc, box |-> box,
                      matrix |-> v1.matrix, normalMatrix |-> v1.normalMatrix]]

\* the fallback of lines 297-302 or the worker branch left unguarded by else:
\* getSurfaceWorker that posts to a worker and also answers synchronously
GetSurfaceWorkerNoElse(v, e, isolevel, smooth, center, size) ==
    LET iso == IF IsNaN(isolevel) THEN GetValueForSigmaOp(v, Num(2))
               ELSE [vol |-> v, ret |-> isolevel]
        sm == IF Truthy(smooth) THEN smooth ELSE Num(0)
        g == GetSurfaceOp(iso.vol, iso.ret, sm, center, size)
    IN  [vol |-> g.vol, post |-> e.Worker /\ ~e.importScripts,
         params |-> [isolevel |-> iso.ret, smooth |-> sm, center |-> center, size |-> size],
         calls |-> <<g.surface>>]

\* getSurfaceWorker whose synchronous fallback forgets the region
GetSurfaceWorkerNoRegion(v, e, isolevel, smooth, center, size) ==
    LET iso == IF IsNaN(isolevel) THEN GetValueForSigmaOp(v, Num(2))
               ELSE [vol |-> v, ret |-> isolevel]
        sm == IF Truthy(smooth) THEN smooth ELSE Num(0)
        g == GetSurfaceOp(iso.vol, iso.ret, sm, NoVector, Undef)
    IN  IF e.Worker /\ ~e.importScripts
        THEN [vol |-> iso.vol, post |-> TRUE,
              params |-> [isolevel |-> iso.ret, smooth |-> sm, center |-> center,
                          size |-> size],
              calls |-> <<>>]
        ELSE [vol |-> g.vol, post |-> FALSE,
              params |-> [isolevel |-> iso.ret, smooth |-> sm, center |-> center,
                          size |-> size],
              calls |-> <<g.surface>>]

\* Volume.prototype.getSurfaceWorker up to the choice of the worker: the volume
\* after the call, whether a message is posted, the params of the message and
\* of the handlers' closure, and the surfaces the callback is called with
\* before the call returns
GetSurfaceWorkerOp(v, e, isolevel, smooth, center, size) ==
    LET iso == IF IsNaN(isolevel) THEN GetValueForSigmaOp(v, Num(2))
               ELSE [vol |-> v, ret |-> isolevel]
        sm == IF Truthy(smooth) THEN smooth ELSE Num(0)
        g == GetSurfaceOp(iso.vol, iso.ret, sm, center, size)
    IN  IF e.Worker /\ ~e.importScripts
        THEN [vol |-> iso.vol, post |-> TRUE,
              params |-> [isolevel |-> iso.ret, smooth |-> sm, center |-> center,
                          size |-> size],
              calls |-> <<>>]
        ELSE [vol |-> g.vol, post |-> FALSE,
              params |-> [isolevel |-> iso.ret, smooth |-> sm, center |-> center,
                          size |-> size],
              calls |-> <<g.surface>>]

\* the error handler that calls getSurface without the region
OnErrorNoRegion(v, p) ==
    LET g == GetSurfaceOp(v, p.isolevel, p.smooth, NoVector, Undef)
    IN  [vol |-> g.vol, calls |-> <<g.surface>>]

\* the error handler of lines 284-293, with the params of its closure:
\* [vol, calls]; the error e is passed to console.warn only
OnErrorOp(v, p) ==
    LET g == GetSurfaceOp(v, p.isolevel, p.smooth, p.center, p.size)
    IN  [vol |-> g.vol, calls |-> <<g.surface>>]

\* Surface.prototype.toJSON and fromJSON of utils.js: the buffers and the info
\* of the surface, tagged as serialized
SurfaceToJSON(surface) == [type |-> "Surface", value |-> surface]
SurfaceFromJSON(data) == data.value

\* the success handler of lines 277-282: the surfaces the callback is called with
OnMessageOp(data) == << SurfaceFromJSON(data) >>

NoWorkerVolume == [def |-> FALSE, v |-> BlankVolume]

\* lines 20-27 of the "surf" function of the worker: self.vol is created when
\* it is undefined, and takes the snapshot d.vol when the message carries one
WorkerVolume(selfVol, d) ==
    LET v0 == IF ~selfVol.def THEN NewVolume(NoArray, Undef, Undef, Undef, NoArray)
              ELSE selfVol.v
    IN  IF d.vol.def THEN FromJSONOp(v0, d.vol) ELSE v0

\* lines 29-39 of the "surf" function, on the volume v that lines 20-27 left
\* in self.vol and the data d of the message: [vol, reply]
WorkerSurf(v, d) ==
    LET p == d.params
        g == GetSurfaceOp(v, p.isolevel, p.smooth, p.center, p.size)
    IN  [vol |-> [def |-> TRUE, v |-> g.vol], reply |-> SurfaceToJSON(g.surface)]

\* ------------------------------------------------------------ inputs

MaxLen == 3

\* the arguments of the setData and constructor calls explored: no arguments
\* at all, and sample arrays with their grid extents
AllDataSets ==
    { [data |-> NoArray, nx |-> Undef, ny |-> Undef, nz |-> Undef,
       dataAtomindex |-> NoArray],
      [data |-> Array(<<2, 2>>), nx |-> Num(2), ny |-> Num(1), nz |-> Num(1),
       dataAtomindex |-> NoArray],
      [data |-> Array(<<1, 7>>), nx |-> Num(1), ny |-> Num(1), nz |-> Num(2),
       dataAtomindex |-> Array(<<0, 1>>)],
      [data |-> Array(<<3, 3, -3>>), nx |-> Num(1), ny |-> Num(3), nz |-> Num(1),
       dataAtomindex |-> NoArray],
      [data |-> Array(<<1, 7, 7, 1>>), nx |-> Num(2), ny |-> Num(2), nz |-> Num(1),
       dataAtomindex |-> NoArray] }

DataSets == { d \in AllDataSets : Len(d.data.val) <= MaxLen }

\* a header as a parser attaches it to a volume, or none
Headers == { NoHeader, [def |-> TRUE, DMEAN |-> 1, ARMS |-> 1] }

FilterLevels == {2, 5}
MinValues == {Undef, NaN, NegInf} \cup { Num(k) : k \in FilterLevels }
MaxValues == {Undef, Inf} \cup { Num(k) : k \in FilterLevels }
Outsides == {Undef, False, True}

\* the grid-to-world matrices given to setMatrix: a quarter turn about z with
\* a translation, and a mirrored shear (determinant -1)
Matrices ==
    { Identity4,
      <<0, 1, 0, 0,  -1, 0, 0, 0,  0, 0, 1, 0,  2, 0, 4, 1>>,
      <<-1, 0, 0, 0,  1, 1, 0, 0,  0, 0, 1, 0,  0, 2, 0, 1>> }

\* the arguments of the getSurface and getSurfaceWorker calls explored
SurfaceArgs ==
    { [isolevel |-> Undef, smooth |-> Undef, center |-> NoVector, size |-> Undef],
      [isolevel |-> Num(3), smooth |-> Num(1), center |-> Vector(0, 1, 0),
       size |-> Num(1)] }

\* a page with workers, a page without, and the inside of a worker
MainThread == [Worker |-> TRUE, importScripts |-> FALSE]
Envs == { MainThread,
          [Worker |-> FALSE, importScripts |-> FALSE],
          [Worker |-> TRUE, importScripts |-> TRUE] }

\* the arguments of the getSurface calls on the main thread: those of
\* SurfaceArgs, and an isolevel that is not a finite number
SurfaceCalls ==
    SurfaceArgs \cup
    { [isolevel |-> x, smooth |-> Undef, center |-> NoVector, size |-> Undef] :
      x \in {NaN, Inf, NegInf} }

\* the sample arrays of the sigma conversions: those of DataSets and a negative
\* constant
SigmaDataSets ==
    DataSets \cup
    { [data |-> Array(<<-2, -2>>), nx |-> Num(2), ny |-> Num(1), nz |-> Num(1),
       dataAtomindex |-> NoArray] }

\* the arguments of getSigmaForValue: finite values whose distance to the
\* mean of every sample array is a multiple of its root mean square
Values == { Num(4), Num(34), Num(-26) }

\* the arguments of getValueForSigma
Sigmas == { Undef, Num(0), Num(1), Num(2), Num(-3) }

\* the label arrays given to setDataAtomindex
AtomindexSets == { NoArray, Array(<<0, 1>>), Array(<<1, 0>>) }

MaxRequests == 2
PoolSize == 2

\* the sample counts explored around the registry threshold: up to
\* RegistryMargin samples, and within RegistryMargin of GidPoolLimit
RegistryMargin == 20
GidPoolLimit == 10000000

\* ------------------------------------------------------------ observation

NoTriple == [def |-> FALSE, minValue |-> Undef, maxValue |-> Undef, outside |-> Undef]
Triple(t) == [def |-> TRUE, minValue |-> t.minValue, maxValue |-> t.maxValue,
              outside |-> t.outside]

\* last: the last call made on the volume and what its caller observed: the
\* value returned, whether filterData returned at "already filtered", whether
\* it threw, the triple it asked for after the defaults, whether that triple
\* was the one in applied when the call was made, and whether it logged a
\* warning.
\* applied: the triple of the last filterData that ran to its end without
\* skipping since the samples were last replaced (history, not program state).
NoArgs == [isolevel |-> Undef, smooth |-> Undef, center |-> NoVector, size |-> Undef]

\* for a getSurface call, also its arguments and the surface it returned; for
\* getSigmaForValue and getValueForSigma, the argument (value, sigma), and for
\* a getValueForSigma call whose argument is what the getSigmaForValue call
\* just before it returned, the value that call was given; for clone, the
\* volume it returned
NoCall == [op |-> "new", ret |-> Undef, skipped |-> FALSE, threw |-> FALSE,
           req |-> NoTriple, matched |-> FALSE, warned |-> FALSE,
           args |-> NoArgs, surface |-> NoSurface,
           value |-> Undef, sigma |-> Undef, clone |-> BlankVolume]

Called(op) == [NoCall EXCEPT !.op = op]

\* a getSurfaceWorker call: its arguments, the params its handlers closed
\* over, the worker it posted to (0: none), every invocation of its callback
\* (log), and, as history, the surface getSurface would have returned for its
\* arguments on the volume as it was at the call (sync)
NoRequest ==
    [state |-> "none",
     args |-> [isolevel |-> Undef, smooth |-> Undef, center |-> NoVector, size |-> Undef],
     params |-> [isolevel |-> Undef, smooth |-> Undef, center |-> NoVector,
                 size |-> Undef],
     worker |-> 0, log |-> <<>>, sync |-> NoSurface]

Invocation(via, surface) == [via |-> via, surface |-> surface]

RECURSIVE LogCalls(_, _, _)
LogCalls(log, via, calls) ==
    IF calls = <<>> THEN log
    ELSE LogCalls(Append(log, Invocation(via, Head(calls))), via, Tail(calls))

\* ------------------------------------------------------------ the worker pool

\* new WorkerPool( "surf", 2 ): the workers are created on demand
NewWorkerPool == [def |-> TRUE, pool |-> <<>>]
NoWorkerPool == [def |-> FALSE, pool |-> <<>>]

\* a Worker of worker/worker.js: postCount, the messages posted to it and not
\* yet handled, its self.vol, and whether it was terminated
NewWorker == [postCount |-> 0, queue |-> <<>>, vol |-> NoWorkerVolume,
              terminated |-> FALSE]

\* worker.post: the message joins the queue and postCount grows by one
WorkerPost(w, msg) ==
    [w EXCEPT !.queue = Append(@, msg), !.postCount = @ + 1]

\* WorkerPool.terminate: every worker of the pool is terminated
PoolTerminate(wp) ==
    [wp EXCEPT !.pool = [k \in 1..Len(wp.pool) |-> [wp.pool[k] EXCEPT !.terminated = TRUE]]]

\* the registry calls of setData (lines 99-104) for n samples, with held
\* telling whether GidPool holds the volume: updateObject( this, true )
\* refreshes the entry of a volume the pool holds and passes over one it does
\* not hold (the constructor calls it before addObject); removeObject drops it
GidPoolSetData(n, held) == IF n <= GidPoolLimit THEN held ELSE FALSE

\* Log.warn of line 102
SetDataWarns(n) == ~(n <= GidPoolLimit)

\* the constructor (lines 57-61): setData on the new object, then addObject
GidPoolNew(n) == IF n <= GidPoolLimit THEN TRUE ELSE GidPoolSetData(n, FALSE)

\* ------------------------------------------------------------ actions

Init ==
    /\ \E d \in DataSets, h \in Headers :
          vol = [NewVolume(d.data, d.nx, d.ny, d.nz, d.dataAtomindex) EXCEPT !.header = h]
    /\ last = NoCall
    /\ applied = NoTriple
    /\ json = NoJSON
    /\ env = MainThread
    /\ workerPool = NoWorkerPool
    /\ replies = {}
    /\ requests = [r \in 1..MaxRequests |-> NoRequest]
    /\ registered = GidPoolNew(Len(vol.__data))

\* setData: this.worker is assigned nowhere, so line 97 terminates nothing
SetData(d) ==
    /\ vol' = SetDataOp(vol, d.data, d.nx, d.ny, d.nz, d.dataAtomindex)
    /\ last' = [Called("setData") EXCEPT !.warned = SetDataWarns(Len(vol'.__data))]
    /\ applied' = NoTriple
    /\ workerPool' = IF Truthy(vol'.worker) THEN PoolTerminate(workerPool) ELSE workerPool
    /\ registered' = GidPoolSetData(Len(vol'.__data), registered)
    /\ UNCHANGED <<json, env, replies, requests>>

FilterData(minValue, maxValue, outside) ==
    LET r == FilterDataOp(vol, minValue, maxValue, outside)
        t == Triple(FilterDefaults(vol, minValue, maxValue, outside))
    IN  /\ vol' = r.vol
        /\ last' = [NoCall EXCEPT !.op = "filterData", !.skipped = r.skipped,
                                  !.threw = r.threw, !.req = t,
                                  !.matched = (applied = t)]
        /\ applied' = IF r.skipped \/ r.threw THEN applied ELSE t
        /\ UNCHANGED <<json, env, workerPool, replies, requests, registered>>

GetDataMin ==
    /\ vol' = GetDataMinOp(vol).vol
    /\ last' = [NoCall EXCEPT !.op = "getDataMin", !.ret = GetDataMinOp(vol).ret]
    /\ UNCHANGED <<applied, json, env, workerPool, replies, requests, registered>>

GetDataMax ==
    /\ vol' = GetDataMaxOp(vol).vol
    /\ last' = [NoCall EXCEPT !.op = "getDataMax", !.ret = GetDataMaxOp(vol).ret]
    /\ UNCHANGED <<applied, json, env, workerPool, replies, requests, registered>>

GetDataMean ==
    /\ vol' = GetDataMeanOp(vol).vol
    /\ last' = [NoCall EXCEPT !.op = "getDataMean", !.ret = GetDataMeanOp(vol).ret]
    /\ UNCHANGED <<applied, json, env, workerPool, replies, requests, registered>>

GetDataRms ==
    /\ vol' = GetDataRmsOp(vol).vol
    /\ last' = [NoCall EXCEPT !.op = "getDataRms", !.ret = GetDataRmsOp(vol).ret]
    /\ UNCHANGED <<applied, json, env, workerPool, replies, requests, registered>>

SetMatrix(m) ==
    /\ vol' = SetMatrixOp(vol, m)
    /\ last' = Called("setMatrix")
    /\ UNCHANGED <<applied, json, env, workerPool, replies, requests, registered>>

\* a caller keeps vol.toJSON()
ToJSON ==
    /\ json' = ToJSONOp(vol)
    /\ last' = Called("toJSON")
    /\ UNCHANGED <<vol, applied, env, workerPool, replies, requests, registered>>

\* vol.fromJSON( json ) with a snapshot kept earlier; fromJSON calls setData
FromJSON ==
    /\ json.def
    /\ vol' = FromJSONOp(vol, json)
    /\ last' = [Called("fromJSON") EXCEPT !.warned = SetDataWarns(Len(vol'.__data))]
    /\ applied' = NoTriple
    /\ workerPool' = IF Truthy(vol'.worker) THEN PoolTerminate(workerPool) ELSE workerPool
    /\ registered' = GidPoolSetData(Len(vol'.__data), registered)
    /\ UNCHANGED <<json, env, replies, requests>>

\* setData and filterData, over every filter triple
Next ==
    \/ \E d \in DataSets : SetData(d)
    \/ \E a \in MinValues, b \in MaxValues, o \in Outsides : FilterData(a, b, o)

Spec == Init /\ [][Next]_vars

\* the filterData calls mixed with the statistics getters: the unfiltered
\* view, a range and the outside of a half-line
StatsFilters == { <<Undef, Undef, Undef>>, <<Num(2), Num(5), False>>,
                  <<Num(2), Undef, True>> }

NextStats ==
    \/ \E d \in DataSets : SetData(d)
    \/ \E f \in StatsFilters : FilterData(f[1], f[2], f[3])
    \/ GetDataMin
    \/ GetDataMax
    \/ GetDataMean
    \/ GetDataRms

SpecStats == Init /\ [][NextStats]_vars

\* the coordinate frame: setData, setMatrix, toJSON and fromJSON
NextGeom ==
    \/ \E d \in DataSets : SetData(d)
    \/ \E m \in Matrices : SetMatrix(m)
    \/ ToJSON
    \/ FromJSON

SpecGeom == Init /\ [][NextGeom]_vars

\* ------------------------------------------------------------ extraction

\* vol.getSurface( isolevel, smooth, center, size )
GetSurface(a) ==
    /\ \E r \in {GetSurfaceOp(vol, a.isolevel, a.smooth, a.center, a.size)} :
          /\ vol' = r.vol
          /\ last' = [Called("getSurface") EXCEPT !.args = a, !.surface = r.surface]
    /\ UNCHANGED <<applied, json, env, workerPool, replies, requests, registered>>

\* vol.setDataAtomindex( dataAtomindex )
SetDataAtomindex(x) ==
    /\ vol' = SetDataAtomindexOp(vol, x)
    /\ last' = Called("setDataAtomindex")
    /\ UNCHANGED <<applied, json, env, workerPool, replies, requests, registered>>

\* a volume without a header
InitSurface ==
    /\ Init
    /\ ~vol.header.def

\* replacing the samples or the labels, filtering, and extracting surfaces
NextSurface ==
    \/ \E d \in DataSets : SetData(d)
    \/ \E x \in AtomindexSets : SetDataAtomindex(x)
    \/ \E f \in StatsFilters : FilterData(f[1], f[2], f[3])
    \/ \E a \in SurfaceCalls : GetSurface(a)

SpecSurface == InitSurface /\ [][NextSurface]_vars

\* ------------------------------------------------------------ clone

\* vol.clone()
Clone ==
    /\ last' = [Called("clone") EXCEPT !.clone = CloneOp(vol)]
    /\ UNCHANGED <<vol, applied, json, env, workerPool, replies, requests, registered>>

\* replacing the samples and the matrix, and cloning
NextClone ==
    \/ \E d \in DataSets : SetData(d)
    \/ \E m \in Matrices : SetMatrix(m)
    \/ Clone

SpecClone == Init /\ [][NextClone]_vars

\* ------------------------------------------------------------ sigma levels

\* vol.getSigmaForValue( value )
GetSigmaForValue(value) ==
    /\ \E r \in {GetSigmaForValueOp(vol, value)} :
          /\ vol' = r.vol
          /\ last' = [Called("getSigmaForValue") EXCEPT !.value = value, !.ret = r.ret]
    /\ UNCHANGED <<applied, json, env, workerPool, replies, requests, registered>>

\* vol.getValueForSigma( sigma )
GetValueForSigma(sigma) ==
    /\ \E r \in {GetValueForSigmaOp(vol, sigma)} :
          /\ vol' = r.vol
          /\ last' = [Called("getValueForSigma") EXCEPT
                        !.sigma = sigma, !.ret = r.ret,
                        !.value = IF last.op = "getSigmaForValue" /\ last.ret = sigma
                                  THEN last.value ELSE Undef]
    /\ UNCHANGED <<applied, json, env, workerPool, replies, requests, registered>>

\* replacing and filtering the samples, the mean and root mean square, and the
\* conversions between values and sigma levels, one fed with the result of the
\* other
NextSigma ==
    \/ \E d \in SigmaDataSets : SetData(d)
    \/ \E f \in StatsFilters : FilterData(f[1], f[2], f[3])
    \/ GetDataMean
    \/ GetDataRms
    \/ \E x \in Values : GetSigmaForValue(x)
    \/ \E k \in Sigmas : GetValueForSigma(k)
    \/ last.op = "getSigmaForValue" /\ GetValueForSigma(last.ret)

SpecSigma == Init /\ [][NextSigma]_vars

\* ------------------------------------------------------------ the registry

\* Volumes too large to enumerate are known here by their sample count alone,
\* which is all that lines 59-61 and 99-104 read: vol is [samples |-> n].
SampleCounts ==
    (1..RegistryMargin) \cup ((GidPoolLimit - RegistryMargin)..(GidPoolLimit + RegistryMargin))

\* new Volume( name, path, data, ... ) with n samples
InitRegistry ==
    /\ \E n \in SampleCounts :
          /\ vol = [samples |-> n]
          /\ registered = GidPoolNew(n)
    /\ last = NoCall
    /\ applied = NoTriple
    /\ json = NoJSON
    /\ env = MainThread
    /\ workerPool = NoWorkerPool
    /\ replies = {}
    /\ requests = [r \in 1..MaxRequests |-> NoRequest]

\* setData with n samples (lines 99-104)
SetDataSized(n) ==
    /\ vol' = [samples |-> n]
    /\ registered' = GidPoolSetData(n, registered)
    /\ last' = [Called("setData") EXCEPT !.warned = SetDataWarns(n)]
    /\ UNCHANGED <<applied, json, env, workerPool, replies, requests>>

NextRegistry == \E n \in SampleCounts : SetDataSized(n)

SpecRegistry == InitRegistry /\ [][NextRegistry]_vars

\* ------------------------------------------------------------ worker actions

\* the sample arrays a volume is constructed with while it uses workers, and
\* the ones setData replaces them by
WorkerDataSets == { d \in DataSets : ~d.data.def \/ d.data.val = <<3, 3, -3>> }
ReplacementDataSets == { d \in WorkerDataSets : d.data.def }

InitWorker ==
    /\ \E d \in WorkerDataSets :
          vol = NewVolume(d.data, d.nx, d.ny, d.nz, d.dataAtomindex)
    /\ last = NoCall
    /\ applied = NoTriple
    /\ json = NoJSON
    /\ env \in Envs
    /\ workerPool = NoWorkerPool
    /\ replies = {}
    /\ requests = [r \in 1..MaxRequests |-> NoRequest]
    /\ registered = GidPoolNew(Len(vol.__data))

\* the workers getNextWorker may return: one of the pool, or a new one while
\* the pool holds fewer than PoolSize (the choice among them is left open)
NextWorkers(wp) == 1..(IF Len(wp.pool) < PoolSize THEN Len(wp.pool) + 1 ELSE PoolSize)

\* a message that never carries the snapshot
MessageNoSnapshot(id, postCount, v, params) ==
    [id |-> id, vol |-> NoJSON, params |-> params]

\* the message of lines 265-272 for a worker whose postCount is as given, from
\* the volume v; id stands for the handlers post registers with it
Message(id, postCount, v, params) ==
    [id |-> id, vol |-> IF postCount = 0 THEN ToJSONOp(v) ELSE NoJSON, params |-> params]

\* vol.getSurfaceWorker( isolevel, smooth, center, size, callback ), as call id,
\* with w the worker getNextWorker returns
GetSurfaceWorker(id, a, w) ==
    LET r == GetSurfaceWorkerOp(vol, env, a.isolevel, a.smooth, a.center, a.size)
        wp == IF ~workerPool.def THEN NewWorkerPool ELSE workerPool
        pool == IF w > Len(wp.pool) THEN Append(wp.pool, NewWorker) ELSE wp.pool
        msg == Message(id, pool[w].postCount, r.vol, r.params)
    IN  /\ requests[id].state = "none"
        /\ \A k \in 1..(id - 1) : requests[k].state # "none"
        /\ IF r.post THEN w \in NextWorkers(wp) ELSE w = 1
        /\ vol' = r.vol
        /\ workerPool' = IF r.post
                         THEN [wp EXCEPT !.pool = [pool EXCEPT ![w] = WorkerPost(@, msg)]]
                         ELSE workerPool
        /\ requests' = [requests EXCEPT ![id] =
                           [state |-> IF r.calls = <<>> THEN "pending" ELSE "done",
                            args |-> a, params |-> r.params,
                            worker |-> IF r.post THEN w ELSE 0,
                            log |-> LogCalls(<<>>, "sync", r.calls),
                            sync |-> GetSurfaceOp(vol, a.isolevel, a.smooth, a.center,
                                                  a.size).surface]]
        /\ UNCHANGED <<last, applied, json, env, replies, registered>>

\* worker w handles the oldest message posted to it, d, and posts the surface
\* back: the "surf" function, with v the self.vol of line 27 and res what
\* lines 29-39 make of it
WorkerStep(w) ==
    /\ workerPool.def /\ w \in 1..Len(workerPool.pool)
    /\ ~workerPool.pool[w].terminated
    /\ workerPool.pool[w].queue # <<>>
    /\ \E d \in {Head(workerPool.pool[w].queue)} :
       \E v \in {WorkerVolume(workerPool.pool[w].vol, d)} :
       \E res \in {WorkerSurf(v, d)} :
           /\ workerPool' = [workerPool EXCEPT !.pool[w].queue = Tail(@),
                                               !.pool[w].vol = res.vol]
           /\ replies' = replies \cup {[id |-> d.id, kind |-> "message", data |-> res.reply]}
    /\ UNCHANGED <<vol, last, applied, json, env, requests, registered>>

\* worker w takes the oldest message posted to it and vol.getSurface of line
\* 30 throws: self.vol holds what line 27 gave it, and an error event comes
\* back in place of the surface
WorkerError(w) ==
    /\ workerPool.def /\ w \in 1..Len(workerPool.pool)
    /\ ~workerPool.pool[w].terminated
    /\ workerPool.pool[w].queue # <<>>
    /\ \E d \in {Head(workerPool.pool[w].queue)} :
       \E v \in {WorkerVolume(workerPool.pool[w].vol, d)} :
           /\ workerPool' = [workerPool EXCEPT !.pool[w].queue = Tail(@),
                                               !.pool[w].vol = [def |-> TRUE, v |-> v]]
           /\ replies' = replies \cup {[id |-> d.id, kind |-> "error",
                                        data |-> SurfaceToJSON(NoSurface)]}
    /\ UNCHANGED <<vol, last, applied, json, env, requests, registered>>

\* the success handler of a request runs on the main thread
OnMessage(e) ==
    /\ e \in replies /\ e.kind = "message"
    /\ replies' = replies \ {e}
    /\ requests' = [requests EXCEPT ![e.id].state = "done",
                                    ![e.id].log = LogCalls(@, "worker", OnMessageOp(e.data))]
    /\ UNCHANGED <<vol, last, applied, json, env, workerPool, registered>>

\* the error handler of a request runs on the main thread
OnError(e) ==
    /\ e \in replies /\ e.kind = "error"
    /\ \E r \in {OnErrorOp(vol, requests[e.id].params)} :
           /\ vol' = r.vol
           /\ requests' = [requests EXCEPT ![e.id].state = "done",
                                           ![e.id].log = LogCalls(@, "fallback", r.calls)]
    /\ replies' = replies \ {e}
    /\ UNCHANGED <<last, applied, json, env, workerPool, registered>>

\* Volume.prototype.dispose
Dispose ==
    /\ workerPool' = IF workerPool.def THEN PoolTerminate(workerPool) ELSE workerPool
    /\ registered' = FALSE
    /\ UNCHANGED <<vol, last, applied, json, env, replies, requests>>

NextWorker ==
    \/ \E d \in ReplacementDataSets : SetData(d)
    \/ \E id \in 1..MaxRequests, a \in SurfaceArgs, w \in 1..PoolSize :
          GetSurfaceWorker(id, a, w)
    \/ \E w \in 1..PoolSize : WorkerStep(w)
    \/ \E w \in 1..PoolSize : WorkerError(w)
    \/ \E e \in replies : OnMessage(e)
    \/ \E e \in replies : OnError(e)
    \/ Dispose

SpecWorker == InitWorker /\ [][NextWorker]_vars

\* the matrix given to setMatrix between worker requests: the quarter turn
WorkerMatrices == { m \in Matrices : m # Identity4 /\ Det4(m) = 1 }

\* the worker requests with setMatrix calls between them, on samples that
\* stay as constructed
NextWorkerMatrix ==
    \/ \E m \in WorkerMatrices : SetMatrix(m)
    \/ \E id \in 1..MaxRequests, a \in SurfaceArgs, w \in 1..PoolSize :
          GetSurfaceWorker(id, a, w)
    \/ \E w \in 1..PoolSize : WorkerStep(w)
    \/ \E w \in 1..PoolSize : WorkerError(w)
    \/ \E e \in replies : OnMessage(e)
    \/ \E e \in replies : OnError(e)
    \/ Dispose

SpecWorkerMatrix == InitWorker /\ [][NextWorkerMatrix]_vars

\* a live worker handles every message posted to it, and every event that
\* came back reaches its handler
FairSpecWorker ==
    /\ SpecWorker
    /\ \A w \in 1..PoolSize : WF_vars(WorkerError(w) \/ WorkerStep(w))
    /\ WF_vars(\E e \in replies : OnMessage(e))
    /\ WF_vars(\E e \in replies : OnError(e))

\* ------------------------------------------------------------ claims C1-C4

RECURSIVE SeqSum(_)
SeqSum(s) == IF s = <<>> THEN 0 ELSE Head(s) + SeqSum(Tail(s))

SeqSquares(s) == [i \in 1..Len(s) |-> s[i] * s[i]]
SeqRange(s) == { s[i] : i \in 1..Len(s) }

\* the statistics of a non-empty sample array, by their definitions
StatMin(s) == Num(CHOOSE m \in SeqRange(s) : \A x \in SeqRange(s) : m <= x)
StatMax(s) == Num(CHOOSE m \in SeqRange(s) : \A x \in SeqRange(s) : m >= x)
StatMean(s) == Num(SeqSum(s) \div Len(s))
StatRms(s) ==
    Num(CHOOSE r \in 0..(SeqSum(SeqSquares(s)) + 1) :
            /\ r * r <= SeqSum(SeqSquares(s)) \div Len(s)
            /\ (r + 1) * (r + 1) > SeqSum(SeqSquares(s)) \div Len(s))

\* C1: whatever setData, filterData and getter calls were made, a cached
\* statistic that is present is the statistic of the current canonical
\* samples __data, and the value a getter just returned is the min, max,
\* mean (sum/n) or rms (sqrt(sumSq/n)) of the current __data.
C1_StatsOfCurrentData ==
    /\ vol.__dataMin # Undef => vol.__dataMin = StatMin(vol.__data)
    /\ vol.__dataMax # Undef => vol.__dataMax = StatMax(vol.__data)
    /\ vol.__dataMean # Undef => vol.__dataMean = StatMean(vol.__data)
    /\ vol.__dataRms # Undef => vol.__dataRms = StatRms(vol.__data)
    /\ last.op = "getDataMin" => last.ret = StatMin(vol.__data)
    /\ last.op = "getDataMax" => last.ret = StatMax(vol.__data)
    /\ last.op = "getDataMean" => last.ret = StatMean(vol.__data)
    /\ last.op = "getDataRms" => last.ret = StatRms(vol.__data)

\* a getter answers from samples <<1, 7>> while a filtered view that drops
\* samples is applied and all four statistics are cached
C1_Witness ==
    /\ last.op = "getDataRms" /\ last.ret = Num(5)
    /\ vol.__data = <<1, 7>> /\ vol.data # vol.__data
    /\ vol.__dataMin = Num(1) /\ vol.__dataMax = Num(7) /\ vol.__dataMean = Num(4)

InClaimedView(x, t) ==
    \/ t.outside = False /\ JsLe(t.minValue, Num(x)) /\ JsLe(Num(x), t.maxValue)
    \/ t.outside = True /\ (JsLt(Num(x), t.minValue) \/ JsGt(Num(x), t.maxValue))

ClaimedView(s, t) ==
    LET Keep(x) == InClaimedView(x, t) IN SelectSeq(s, Keep)

\* C3: after a filterData call that neither skipped nor threw, for every
\* triple, infinite bounds included, the data view is the canonical samples
\* that satisfy the predicate, in index order.
C3_ViewIsPredicate ==
    (last.op = "filterData" /\ ~last.skipped /\ ~last.threw)
        => vol.data = ClaimedView(vol.__data, last.req)

\* C4: after every filterData call dataPosition is defined and holds three
\* coordinates per entry of the data view, also when setData replaced the
\* samples after an earlier filterData.
C4_PositionsPerSample ==
    last.op = "filterData"
        => /\ vol.dataPosition.def
           /\ Len(vol.dataPosition.val) = 3 * Len(vol.data)

\* ------------------------------------------------------------ claim C5

\* the world positions of the eight corners of the current grid
WorldCorners(v) ==
    { ApplyMatrix4(v.matrix, << i * (v.nx - 1), j * (v.ny - 1), k * (v.nz - 1) >>) :
      i \in {0, 1}, j \in {0, 1}, k \in {0, 1} }

LeastOf(S) == CHOOSE m \in S : \A x \in S : m <= x
GreatestOf(S) == CHOOSE m \in S : \A x \in S : m >= x

MatMul4(a, b) ==
    [k \in 1..16 |->
        LET r == (k - 1) % 4
            c == (k - 1) \div 4
        IN  El(a, r, 0) * El(b, 0, c) + El(a, r, 1) * El(b, 1, c)
              + El(a, r, 2) * El(b, 2, c) + El(a, r, 3) * El(b, 3, c)]

DerivedFromMatrix(v) ==
    LET lo == [k \in 1..3 |-> LeastOf({ p[k] : p \in WorldCorners(v) })]
        hi == [k \in 1..3 |-> GreatestOf({ p[k] : p \in WorldCorners(v) })]
        r0 == << v.matrix[1], v.matrix[2], v.matrix[3] >>
        r1 == << v.matrix[5], v.matrix[6], v.matrix[7] >>
        r2 == << v.matrix[9], v.matrix[10], v.matrix[11] >>
    IN  /\ v.boundingBox.min = [k \in 1..3 |-> Num(lo[k])]
        /\ v.boundingBox.max = [k \in 1..3 |-> Num(hi[k])]
        /\ v.center = [k \in 1..3 |-> (lo[k] + hi[k]) \div 2]
        /\ MatMul4(v.matrix, v.inverseMatrix) = Identity4
        /\ v.normalMatrix = CrossVectors(r1, r2) \o CrossVectors(r2, r0)
                                \o CrossVectors(r0, r1)

\* C5: in every state reached by construction, setData, setMatrix and fromJSON
\* of a toJSON snapshot, boundingBox, center, inverseMatrix and normalMatrix
\* are the values derived from the current matrix and the current nx, ny, nz.
C5_DerivedConsistent == DerivedFromMatrix(vol)

\* ------------------------------------------------------------ claims C6-C10

\* the invocations of the callback of request r that came by way of via
Answers(r, via) ==
    { i \in 1..Len(requests[r].log) : requests[r].log[i].via = via }

\* C6: setData releases the worker session, so every surface a worker
\* delivers to the callback of a getSurfaceWorker call is computed from the
\* samples the volume held when that call was made, never from samples that
\* setData had replaced before the call.
C6_NoStaleWorkerSurface ==
    \A r \in 1..MaxRequests : \A i \in Answers(r, "worker") :
        requests[r].log[i].surface.mc.data = requests[r].sync.mc.data

\* C7: on every path and under every interleaving of the requests in flight,
\* the callback of a getSurfaceWorker call is invoked at most once.
C7_CallbackAtMostOnce ==
    \A r \in 1..MaxRequests : Len(requests[r].log) <= 1

\* two requests were in flight together on the same worker; the first came
\* back as an error and was answered by the fallback, the second was
\* answered by the worker
C7_Witness ==
    /\ requests[1].worker # 0 /\ requests[1].worker = requests[2].worker
    /\ Answers(1, "fallback") = {1}
    /\ Answers(2, "worker") = {1}

\* C8: every getSurfaceWorker call that has not yet invoked its callback
\* eventually does, also when setData or dispose happen while it is in flight.
C8_EventuallyAnswered ==
    \A r \in 1..MaxRequests :
        (requests[r].state = "pending") ~> (requests[r].state = "done")

\* C9: the surface the error handler passes to the callback is a surface (the
\* transport error is not delivered), with the isolevel resolved when the
\* request was dispatched, and the smoothing count and the region of the
\* request.
C9_FallbackSameParameters ==
    \A r \in 1..MaxRequests : \A i \in Answers(r, "fallback") :
        LET s == requests[r].log[i].surface
        IN  /\ s.def
            /\ s.isolevel = requests[r].sync.isolevel
            /\ s.smooth = requests[r].sync.smooth
            /\ s.box = requests[r].sync.box

\* the fallback answered a request for a region with smoothing, and a
\* request with the default isolevel after setData had replaced the samples
C9_Witness ==
    \E r, q \in 1..MaxRequests :
        /\ Answers(r, "fallback") = {1}
        /\ requests[r].args.center.def /\ requests[r].log[1].surface.box.def
        /\ requests[r].log[1].surface.smooth = Num(1)
        /\ Answers(q, "fallback") = {1}
        /\ requests[q].args.isolevel = Undef
        /\ requests[q].log[1].surface.mc.data # requests[q].sync.mc.data

\* workers are unavailable, or the code runs inside a worker
NoWorkers == ~env.Worker \/ env.importScripts

\* C10: without workers getSurfaceWorker creates no pool, posts nothing and
\* has called the callback, once, when it returns, with the surface getSurface
\* returns for the same arguments on the same volume.
C10_SynchronousWithoutWorkers ==
    NoWorkers =>
        /\ ~workerPool.def
        /\ replies = {}
        /\ \A r \in 1..MaxRequests :
               requests[r].state # "none" =>
                  /\ requests[r].state = "done"
                  /\ requests[r].worker = 0
                  /\ requests[r].log = << Invocation("sync", requests[r].sync) >>

\* inside a worker, a request for a region and a request with the default
\* isolevel were both answered synchronously
C10_Witness ==
    /\ env.importScripts
    /\ \E r, q \in 1..MaxRequests :
          /\ requests[r].state = "done" /\ requests[r].log[1].surface.box.def
          /\ requests[q].state = "done" /\ requests[q].args.isolevel = Undef
          /\ requests[q].log[1].surface.mc.data = <<3, 3, -3>>

\* ------------------------------------------------------------ claims C11-C20

\* the messages worker wk has taken from its queue
Handled(wk) == wk.postCount - Len(wk.queue)

\* C11: for every worker of the pool, the first message posted to it carries
\* the snapshot and every later one carries none, and a worker that has taken
\* a message holds a volume that took a snapshot by fromJSON, not the empty
\* Volume of line 20.
C11_SnapshotWithFirstMessage ==
    \A w \in 1..Len(workerPool.pool) :
        LET wk == workerPool.pool[w]
        IN  /\ \A i \in 1..Len(wk.queue) :
                   wk.queue[i].vol.def <=> (Handled(wk) + i = 1)
            /\ Handled(wk) > 0 =>
                   /\ wk.vol.def
                   /\ wk.vol.v.boundingBox = BoxSetFromArrays(<<>>, <<>>)

\* one worker was posted two requests, handled both, and the second was
\* answered by the worker
C11_Witness ==
    \E w \in 1..Len(workerPool.pool) :
        /\ workerPool.pool[w].postCount = 2 /\ workerPool.pool[w].queue = <<>>
        /\ requests[1].worker = w /\ requests[2].worker = w
        /\ Answers(2, "worker") = {1}

\* C12: a volume that has just taken a toJSON snapshot by fromJSON has the
\* samples, extents, labels, matrix, normalMatrix, inverseMatrix, center,
\* boundingBox and header that the snapshot was taken from.
C12_RoundTrip ==
    last.op = "fromJSON" =>
        /\ vol.__data = json.data
        /\ vol.nx = json.nx /\ vol.ny = json.ny /\ vol.nz = json.nz
        /\ vol.__dataAtomindex = json.dataAtomindex
        /\ vol.matrix = json.matrix
        /\ vol.normalMatrix = json.normalMatrix
        /\ vol.inverseMatrix = json.inverseMatrix
        /\ vol.center = json.center
        /\ vol.header = json.header
        /\ vol.boundingBox = json.boundingBox

\* C13: after construction and after every setData the registry holds the
\* volume exactly when it has at most 10^7 samples, and a setData with more
\* samples logs a warning.
C13_RegisteredIffSmall ==
    /\ registered <=> vol.samples <= GidPoolLimit
    /\ (last.op = "setData" /\ vol.samples > GidPoolLimit) => last.warned

\* the isolevel of a getSurface call with arguments a on samples s, as the
\* claims give it: the finite isolevel supplied, or mean + 2 * rms
DefaultIsolevel(s) == JsAdd(StatMean(s), JsMul(Num(2), StatRms(s)))
ClaimedIsolevel(a, s) ==
    IF a.isolevel[1] = "number" THEN a.isolevel ELSE DefaultIsolevel(s)

\* C14: a filterData or getSurface call leaves the canonical samples __data
\* as they were, and the surface getSurface returns is extracted from all of
\* __data, with the default isolevel computed from all of __data, whatever
\* filter is applied to the data view.
C14_CanonicalSamplesReadOnly ==
    [][ last'.op \in {"filterData", "getSurface"} =>
           /\ vol'.__data = vol.__data
           /\ last'.op = "getSurface" =>
                  /\ last'.surface.mc.data = vol.__data
                  /\ last'.args.isolevel \in {Undef, Num(3)} =>
                         last'.surface.isolevel = ClaimedIsolevel(last'.args, vol.__data)
      ]_vars

\* getSurface with the default isolevel answered from samples <<1, 7>> while
\* a filtered view that drops a sample is applied
C14_Witness ==
    /\ last.op = "getSurface" /\ last.args.isolevel = Undef
    /\ last.surface.isolevel = Num(14)
    /\ vol.__data = <<1, 7>> /\ vol.data = <<1>>

\* C15: converting a finite value to its sigma level and the level back gives
\* the value again, on every volume: getValueForSigma( getSigmaForValue( v ) )
\* is v.
C15_SigmaRoundTrip ==
    (last.op = "getValueForSigma" /\ last.value # Undef) => last.ret = last.value

\* C15 as the code has it: the round trip gives the value again on every
\* volume whose root mean square is not 0; on the others (the default volume,
\* all-zero samples) getSigmaForValue divides by 0 and the round trip gives NaN.
C15_SigmaRoundTripNonZero ==
    (last.op = "getValueForSigma" /\ last.value # Undef) =>
        last.ret = IF StatRms(vol.__data) # Num(0) THEN last.value ELSE NaN

\* the value 34 went through sigma 6 and back on the samples 1, 7
C15_Witness ==
    /\ last.op = "getValueForSigma" /\ last.value = Num(34)
    /\ last.sigma = Num(6) /\ last.ret = Num(34)
    /\ vol.__data = <<1, 7>>

\* C16: the isolevel a getSurface call extracts at and records in the surface
\* is getValueForSigma( 2 ) whenever the isolevel supplied is not a finite
\* number (undefined, NaN, +Infinity or -Infinity), and the supplied isolevel
\* otherwise.
C16_IsolevelDefault ==
    last.op = "getSurface" =>
        last.surface.isolevel = ClaimedIsolevel(last.args, vol.__data)

\* samples that are all the same number
ZeroVariance(s) == \A i, j \in 1..Len(s) : s[i] = s[j]

\* C17: on samples that are all the same number, getDataRms() returns 0 and
\* getValueForSigma( k ) returns the mean, for every finite or omitted k.
C17_ZeroVarianceRms ==
    ZeroVariance(vol.__data) =>
        /\ last.op = "getDataRms" => last.ret = Num(0)
        /\ (last.op = "getValueForSigma" /\ last.sigma[1] \in {"number", "undefined"})
               => last.ret = StatMean(vol.__data)

\* C17 as the code has it: on samples that all equal c, getDataRms() returns
\* |c|, the root mean square about zero, and getValueForSigma( k ) returns
\* c + k * |c| for every finite k (k = 2 when omitted); these are 0 and the
\* mean only for c = 0.
C17_ConstantRms ==
    ZeroVariance(vol.__data) =>
        LET c == vol.__data[1]
            abs == IF c < 0 THEN 0 - c ELSE c
            k == IF last.sigma = Undef THEN 2 ELSE last.sigma[2]
        IN  /\ last.op = "getDataRms" => last.ret = Num(abs)
            /\ (last.op = "getValueForSigma" /\ last.sigma[1] \in {"number", "undefined"})
                   => last.ret = Num(c + k * abs)

\* getValueForSigma( 1 ) returned 0 on the samples -2, -2
C17_Witness ==
    /\ last.op = "getValueForSigma" /\ last.sigma = Num(1)
    /\ vol.__data = <<-2, -2>>
    /\ last.ret = Num(0)

\* C18: the marching-cubes instance a volume holds, and the one a getSurface
\* call extracts from, is built from the current samples, extents and labels:
\* it is created on demand and discarded by setData, fromJSON and
\* setDataAtomindex.
C18_McOfCurrentInputs ==
    /\ vol.mc.def => vol.mc = NewMarchingCubes(vol)
    /\ last.op = "getSurface" => last.surface.mc = NewMarchingCubes(vol)

\* C19: the volume clone() returns has the samples, extents, labels, header
\* and matrix of the original, its normalMatrix, inverseMatrix, boundingBox
\* and center equal the original's, and getSurface gives the same surface on
\* both, box included.
C19_CloneEquivalent ==
    last.op = "clone" =>
        LET c == last.clone
        IN  /\ c.__data = vol.__data
            /\ c.nx = vol.nx /\ c.ny = vol.ny /\ c.nz = vol.nz
            /\ c.__dataAtomindex = vol.__dataAtomindex
            /\ c.header = vol.header
            /\ c.matrix = vol.matrix
            /\ c.normalMatrix = vol.normalMatrix
            /\ c.inverseMatrix = vol.inverseMatrix
            /\ c.boundingBox = vol.boundingBox
            /\ c.center = vol.center
            /\ \A a \in SurfaceArgs :
                  GetSurfaceOp(c, a.isolevel, a.smooth, a.center, a.size).surface
                  = GetSurfaceOp(vol, a.isolevel, a.smooth, a.center, a.size).surface

\* C20: under every sequence of setMatrix and getSurfaceWorker calls, a surface a worker delivers to the callback of a getSurfaceWorker call is
\* the surface getSurface would have returned, for the same arguments, on the
\* volume as it was when the call was made: a setMatrix made after the worker
\* took its snapshot shows in the surfaces of later calls.  (C6 is the same
\* for setData.)
C20_WorkerSurfaceAsSynchronous ==
    \A r \in 1..MaxRequests : \A i \in Answers(r, "worker") :
        requests[r].log[i].surface = requests[r].sync

====
